---- MODULE Spec2Model ----
(***************************************************************************)
(* rat: main (src/unnamed/part_004) and run, blplList, selectBlpl,         *)
(* runSelect and the tree copier copyDir (src/run.go), over a model of the *)
(* filesystem, of the executables on PATH and of the selector subprocess.  *)
(*                                                                         *)
(* A path string is a sequence of tokens, each the separator "/" or a      *)
(* name; the filesystem maps resolved paths (sequences of names) to        *)
(* entries.  The process is an unprivileged or a privileged user that owns *)
(* every entry, so the owner permission bits decide access.                *)
(***************************************************************************)
EXTENDS Integers, Sequences, FiniteSets, TLC

\* ------------------------------------------------------------- bounds

\* Longest resolved path, in names, the kernel accepts (PATH_MAX, scaled).
MaxDepth == 6

\* ------------------------------------------------------ path strings

Sep == "/"

Dot == "."

DotDot == ".."

\* strings.HasPrefix, as strings.TrimPrefix uses it
HasPrefix(s, p) == Len(s) >= Len(p) /\ SubSeq(s, 1, Len(p)) = p

\* strings.TrimPrefix(s, p)
TrimPrefix(s, p) == IF HasPrefix(s, p) THEN SubSeq(s, Len(p) + 1, Len(s)) ELSE s

\* The elements of a path string between its separators.
Comps(s) == SelectSeq(s, LAMBDA t : t # Sep)

\* filepath.Clean on one element: "." is dropped, ".." backs up over a name
\* (and is dropped at the root), a name is kept.
CleanStep(acc, c, rooted) ==
    IF c = Dot THEN acc
    ELSE IF c # DotDot THEN Append(acc, c)
    ELSE IF acc # <<>> /\ acc[Len(acc)] # DotDot THEN SubSeq(acc, 1, Len(acc) - 1)
    ELSE IF rooted THEN acc
    ELSE Append(acc, c)

RECURSIVE CleanComps(_, _, _)
\* filepath.Clean's pass over the elements.
CleanComps(cs, acc, rooted) ==
    IF cs = <<>> THEN acc
    ELSE CleanComps(Tail(cs), CleanStep(acc, Head(cs), rooted), rooted)

RECURSIVE JoinSep(_)
\* strings.Join(elems, "/")
JoinSep(cs) ==
    IF Len(cs) <= 1 THEN cs ELSE <<Head(cs), Sep>> \o JoinSep(Tail(cs))

\* filepath.Clean's result from the cleaned elements.
CleanOut(rooted, cs) ==
    IF ~rooted /\ cs = <<>> THEN <<Dot>>
    ELSE (IF rooted THEN <<Sep>> ELSE <<>>) \o JoinSep(cs)

\* filepath.Clean(s)
Clean(s) ==
    IF s = <<>> THEN <<Dot>>
    ELSE CleanOut(s[1] = Sep, CleanComps(Comps(s), <<>>, s[1] = Sep))

\* filepath.Join(a, b): empty elements ignored, the result cleaned
Join(a, b) ==
    IF a = <<>> /\ b = <<>> THEN <<>>
    ELSE Clean(IF a = <<>> THEN b ELSE IF b = <<>> THEN a ELSE a \o <<Sep>> \o b)

\* The entry a path string names: the names of the cleaned path (every path
\* of the model is absolute, and the trees hold no symbolic link).
Resolve(s) == Comps(Clean(s))

\* ------------------------------------------------------ permissions

Oct(a, b, c) == 64 * a + 8 * b + c

Bit(n, i) == (n \div (2 ^ i)) % 2

\* perm &^ mask on the nine permission bits
AndNot(p, m) ==
    LET keep == {i \in 0..8 : (p \div (2 ^ i)) % 2 = 1 /\ (m \div (2 ^ i)) % 2 = 0}
        sum[k \in 0..9] == IF k = 9 THEN 0 ELSE (IF k \in keep THEN 2 ^ k ELSE 0) + sum[k + 1]
    IN  sum[0]

OwnerR(p) == Bit(p, 8) = 1

OwnerW(p) == Bit(p, 7) = 1

OwnerX(p) == Bit(p, 6) = 1

\* ------------------------------------------------------------- state

VARIABLES
    fs,          \* the filesystem: resolved path -> entry
    fs0,         \* the filesystem when copyDir was called
    umask,       \* the process's file mode creation mask
    privileged,  \* whether the process bypasses permission checks
    dst,         \* copyDir's dst argument
    src,         \* copyDir's src argument
    pc,          \* "main", "run", "check", "copyDir", "walk", "returned", "exit" or "panic"
    todo,        \* the paths filepath.Walk has still to visit, in order
    err,         \* the error copyDir returns ("nil": none)
    exit,        \* run's return value once it returned (-1 before)
    log          \* what the calls of the callback did, in order

VARIABLES
    osArgs,              \* the positional command line arguments (flag.Args())
    option,              \* run's option: showList, showVersion
    env,                 \* run's env: ratRoot, ratSelectCmd (before newEnv: the environment's values)
    args,                \* run's args: boilerplateName, projectPath
    srcBoilerplatePath,  \* run's local of that name
    outStream,           \* the lines printed on the standard output
    errStream,           \* the diagnostics printed on the standard error
    calls                \* the directory listings, subprocesses and copyDir calls made, in order

\* The state of main and run before copyDir.
front == <<osArgs, option, env, args, srcBoilerplatePath, outStream, errStream, calls>>

vars == <<fs, fs0, umask, privileged, dst, src, pc, todo, err, exit, log,
          osArgs, option, env, args, srcBoilerplatePath, outStream, errStream, calls>>

\* ------------------------------------------------------- filesystem

Dir(perm) == [kind |-> "dir", perm |-> perm, data |-> <<>>]

File(perm, data) == [kind |-> "file", perm |-> perm, data |-> data]

Parent(p) == SubSeq(p, 1, Len(p) - 1)

\* Directory names in the order ioutil.ReadDir and filepath.Walk sort them.
NameOrder ==
    <<"a", "alpha", "b", "beta", "e", "f", "gamma", "in", "keep", "nx", "out", "p", "r", "ro",
      "sub", "t", "w">>

ChildNames(f, p) ==
    {q[Len(q)] : q \in {x \in DOMAIN f : Len(x) = Len(p) + 1 /\ SubSeq(x, 1, Len(p)) = p}}

\* Whether the process may do what the owner bit `bit` of entry p allows.
May(f, p, bit) == privileged \/ (f[p].perm \div (2 ^ bit)) % 2 = 1

RECURSIVE PathErrFrom(_, _, _)
\* Path resolution up to the last name: every directory on the way exists,
\* is a directory and is searchable.
PathErrFrom(f, p, i) ==
    IF i >= Len(p) THEN "ok"
    ELSE IF SubSeq(p, 1, i) \notin DOMAIN f THEN "ENOENT"
    ELSE IF f[SubSeq(p, 1, i)].kind # "dir" THEN "ENOTDIR"
    ELSE IF ~May(f, SubSeq(p, 1, i), 6) THEN "EACCES"
    ELSE PathErrFrom(f, p, i + 1)

\* The error of looking up path string s, resolved to p, e the error on the way.
LookupErr(f, s, p, e) ==
    IF s = <<>> THEN "ENOENT"
    ELSE IF Len(p) > MaxDepth THEN "ENAMETOOLONG"
    ELSE IF e # "ok" THEN e
    ELSE IF s[Len(s)] = Sep /\ p \in DOMAIN f /\ f[p].kind # "dir" THEN "ENOTDIR"
    ELSE "ok"

LookupAt(f, s, p) == [err |-> LookupErr(f, s, p, PathErrFrom(f, p, 0)), p |-> p]

\* The kernel's lookup of a path string: the error, or the resolved path.
Lookup(f, s) == LookupAt(f, s, Resolve(s))

NoInfo == [kind |-> "none", perm |-> 0, data |-> <<>>]

LstatAt(f, l) ==
    IF l.err # "ok" THEN [err |-> l.err, info |-> NoInfo]
    ELSE IF l.p \notin DOMAIN f THEN [err |-> "ENOENT", info |-> NoInfo]
    ELSE [err |-> "ok", info |-> f[l.p]]

\* os.Lstat(s)
Lstat(f, s) == LstatAt(f, Lookup(f, s))

MkdirAt(f, l, perm) ==
    IF l.err # "ok" THEN [err |-> l.err, fs |-> f]
    ELSE IF l.p \in DOMAIN f THEN [err |-> "EEXIST", fs |-> f]
    ELSE IF ~May(f, Parent(l.p), 7) THEN [err |-> "EACCES", fs |-> f]
    ELSE [err |-> "ok", fs |-> (l.p :> Dir(perm)) @@ f]

\* os.Mkdir(s, perm): the new directory gets perm less the umask
Mkdir(f, s, perm) == MkdirAt(f, Lookup(f, s), AndNot(perm, umask))

\* The mode os.Create asks for (before umask).
CreateMode == Oct(6, 6, 6)

CreateAt(f, l, perm) ==
    IF l.err # "ok" THEN [err |-> l.err, fs |-> f]
    ELSE IF l.p \in DOMAIN f /\ f[l.p].kind = "dir" THEN [err |-> "EISDIR", fs |-> f]
    ELSE IF l.p \in DOMAIN f /\ ~(May(f, l.p, 8) /\ May(f, l.p, 7))
         THEN [err |-> "EACCES", fs |-> f]
    ELSE IF l.p \in DOMAIN f THEN [err |-> "ok", fs |-> [f EXCEPT ![l.p].data = <<>>]]
    ELSE IF ~May(f, Parent(l.p), 7) THEN [err |-> "EACCES", fs |-> f]
    ELSE [err |-> "ok", fs |-> (l.p :> File(perm, <<>>)) @@ f]

\* os.Create(s): O_RDWR|O_CREATE|O_TRUNC, mode 0666 less the umask
Create(f, s) == CreateAt(f, Lookup(f, s), AndNot(CreateMode, umask))

OpenAt(f, l) ==
    IF l.err # "ok" THEN l
    ELSE IF l.p \notin DOMAIN f THEN [err |-> "ENOENT", p |-> l.p]
    ELSE IF ~May(f, l.p, 8) THEN [err |-> "EACCES", p |-> l.p]
    ELSE l

\* os.Open(s): the handle is the entry opened for reading
Open(f, s) == OpenAt(f, Lookup(f, s))

readDirNamesAt(f, o) ==
    IF o.err # "ok" THEN [err |-> o.err, names |-> <<>>]
    ELSE IF f[o.p].kind # "dir" THEN [err |-> "ENOTDIR", names |-> <<>>]
    ELSE [err |-> "ok", names |-> SelectSeq(NameOrder, LAMBDA n : n \in ChildNames(f, o.p))]

\* filepath.Walk's readDirNames(s): open, read the names, sort them
readDirNames(f, s) == readDirNamesAt(f, Open(f, s))

\* Reading an open handle to its end: a directory handle cannot be read.
ReadAll(f, p) ==
    IF f[p].kind = "dir" THEN [err |-> "EISDIR", data |-> <<>>]
    ELSE [err |-> "ok", data |-> f[p].data]

CopyAt(f, dp, r) == [err |-> r.err, fs |-> [f EXCEPT ![dp].data = r.data]]

\* io.Copy(dstFile, srcFile): what was read before the error is written;
\* the error is its result.
Copy(f, dp, sp) == CopyAt(f, dp, ReadAll(f, sp))

\* ---------------------------------------------------------- copyDir

exitCodeOK == 0

exitCodeError == 1

\* The exit status of a Go program that panicked.
exitCodePanic == 2

\* The permission bits copyDir asks for the destination root (0755).
RootMode == Oct(7, 5, 5)

\* path = strings.TrimPrefix(path, src)
RelPath(path) == TrimPrefix(path, src)

\* filepath.Join(dst, path), the entry written for a source entry
DstPath(rel) == Join(dst, rel)

\* The path the callback opens to read a file's bytes: os.Open(src).
CopySource(path) == src

\* Every directory made with the mode of the destination root.
DirModeFixed(info) == RootMode

\* The mode the callback hands os.Mkdir for a source directory: info.Mode().
DirMode(info) == info.perm

\* What one call of the callback did: the error it returns (err), the
\* filesystem it leaves, the call that decided it (op), that call's own
\* error (sys), the entry written (to) and io.Copy's error (cerr).
Result(e, sys, f, op, to, cerr) ==
    [err |-> IF e = "ok" THEN "nil" ELSE e, sys |-> IF sys = "ok" THEN "nil" ELSE sys,
     fs |-> f, panic |-> op = "panic", op |-> op, to |-> to,
     cerr |-> IF cerr = "ok" THEN "nil" ELSE cerr]

\* os.Mkdir's error dropped, as copyDir drops the one of os.Mkdir(dst, 0755).
MakeDirAtDropErr(m, to) == Result("ok", m.err, m.fs, "mkdir", to, "nil")

\* if err != nil { return err } after os.Mkdir
MakeDirAt(m, to) == Result(m.err, m.err, m.fs, "mkdir", to, "nil")

\* if info.IsDir() { dstDir := filepath.Join(dst, path); err := os.Mkdir(dstDir, info.Mode()) }
MakeDir(f, d, info) == MakeDirAt(Mkdir(f, d, DirMode(info)), Resolve(d))

\* io.Copy's error is dropped: the callback returns nil after it.
CopyDone(cp, to) == Result("ok", "ok", cp.fs, "copy", to, cp.err)

CopyFileAt(f, o, c, to) ==
    IF o.err # "ok" THEN Result(o.err, o.err, f, "open", to, "nil")
    ELSE IF c.err # "ok" THEN Result(c.err, c.err, f, "create", to, "nil")
    ELSE CopyDone(Copy(c.fs, to, o.p), to)

\* else { os.Open(src); os.Create(filepath.Join(dst, path)); io.Copy(dstFile, srcFile) }
CopyFile(f, path, d) == CopyFileAt(f, Open(f, CopySource(path)), Create(f, d), Resolve(d))

walkFnAt(f, path, info, rel) ==
    IF rel = <<>> THEN Result("ok", "ok", f, "skip", <<>>, "nil")
    ELSE IF info = NoInfo THEN Result("ok", "ok", f, "panic", <<>>, "nil")
    ELSE IF info.kind = "dir" THEN MakeDir(f, DstPath(rel), info)
    ELSE CopyFile(f, path, DstPath(rel))

\* The function copyDir hands filepath.Walk.  Its err argument is never
\* read; info is NoInfo (nil) when Walk could not lstat the entry, and
\* info.IsDir() then panics.
walkFn(f, path, info) == walkFnAt(f, path, info, RelPath(path))

\* One record of the log per call of the callback.
Event(path, info, r) ==
    [op |-> r.op, path |-> path, to |-> r.to, kind |-> info.kind, mode |-> info.perm,
     err |-> r.err, sys |-> r.sys, cerr |-> r.cerr]

\* What Walk does with the callback's result r for the entry at the head
\* of todo: a panic ends the process, an error ends the walk, and after
\* nil the walk goes on with next.
AfterCall(path, info, r, next) ==
    /\ fs' = r.fs
    /\ log' = Append(log, Event(path, info, r))
    /\ pc' = IF r.panic THEN "panic" ELSE IF r.err # "nil" THEN "returned" ELSE "walk"
    /\ err' = IF r.panic THEN err ELSE r.err
    /\ exit' = IF r.panic THEN exitCodePanic ELSE exit
    /\ todo' = IF r.panic \/ r.err # "nil" THEN Tail(todo) ELSE next
    /\ UNCHANGED <<fs0, umask, privileged, dst, src>>
    /\ UNCHANGED front

\* The destination emptied first: os.RemoveAll(dst) before os.Mkdir(dst, 0755).
MakeRootClean(f) ==
    Mkdir([p \in {q \in DOMAIN f : ~HasPrefix(q, Resolve(dst))} |-> f[p]], dst, RootMode).fs

\* os.Mkdir(dst, 0755): the filesystem after it, whatever its error.
MakeRoot(f) == Mkdir(f, dst, RootMode).fs

CopyDirStartAt(f1, l) ==
    IF l.err = "ok"
    THEN /\ fs' = f1
         /\ pc' = "walk"
         /\ todo' = <<src>>
         /\ UNCHANGED <<fs0, umask, privileged, dst, src, err, exit, log>>
         /\ UNCHANGED front
    ELSE AfterCall(src, NoInfo, walkFn(f1, src, NoInfo), <<>>)

\* copyDir's first statement, os.Mkdir(dst, 0755) with its error dropped,
\* and filepath.Walk's lstat of the root; when that fails the callback is
\* called with a nil info.
CopyDirStart ==
    /\ pc = "copyDir"
    /\ CopyDirStartAt(MakeRoot(fs), Lstat(MakeRoot(fs), src))

Children(path, names) == [i \in 1..Len(names) |-> Join(path, <<names[i]>>)]

\* The entries walk goes on with after a directory: its children before the
\* rest, or the rest alone when its names could not be read.
NextTodo(path, n) ==
    IF n.err # "ok" THEN Tail(todo) ELSE Children(path, n.names) \o Tail(todo)

VisitAt(path, l) ==
    IF l.err # "ok" THEN AfterCall(path, NoInfo, walkFn(fs, path, NoInfo), Tail(todo))
    ELSE AfterCall(path, l.info, walkFn(fs, path, l.info),
                   IF l.info.kind = "dir" THEN NextTodo(path, readDirNames(fs, path))
                   ELSE Tail(todo))

\* One entry of filepath.Walk: lstat; for a directory the names are read,
\* the callback is called once, and the children are walked when both went
\* well; for another entry the callback alone; when lstat of a listed name
\* fails the callback gets a nil info.
Visit ==
    /\ pc = "walk" /\ todo # <<>>
    /\ VisitAt(Head(todo), Lstat(fs, Head(todo)))

\* filepath.Walk returns nil once every entry was visited.
WalkReturn ==
    /\ pc = "walk" /\ todo = <<>>
    /\ pc' = "returned" /\ err' = "nil"
    /\ UNCHANGED <<fs, fs0, umask, privileged, dst, src, todo, exit, log>>
    /\ UNCHANGED front

\* run after copyDir: err != nil is printed and gives exitCodeError, else
\* exitCodeOK.
RunReturn ==
    /\ pc = "returned"
    /\ pc' = "exit"
    /\ exit' = IF err # "nil" THEN exitCodeError ELSE exitCodeOK
    /\ errStream' = IF err # "nil" THEN Append(errStream, err) ELSE errStream
    /\ UNCHANGED <<fs, fs0, umask, privileged, dst, src, todo, err, log>>
    /\ UNCHANGED <<osArgs, option, env, args, srcBoilerplatePath, outStream, calls>>

\* ------------------------------------------------------ main and run

\* The newline of the selector's input and output.
NL == "\n"

\* The blank between the words of a command line.
Blank == " "

\* strings.HasSuffix, as strings.TrimSuffix uses it
HasSuffix(s, x) == Len(s) >= Len(x) /\ SubSeq(s, Len(s) - Len(x) + 1, Len(s)) = x

RECURSIVE TrimRight(_, _)
\* Every trailing x removed, as strings.TrimRight does for a one-character x.
TrimRight(s, x) ==
    IF x # <<>> /\ HasSuffix(s, x) THEN TrimRight(SubSeq(s, 1, Len(s) - Len(x)), x) ELSE s

\* strings.TrimSuffix(s, x)
TrimSuffix(s, x) == IF HasSuffix(s, x) THEN SubSeq(s, 1, Len(s) - Len(x)) ELSE s

RECURSIVE Glue(_)
\* The same string as a path string: what stands between two separators is
\* one name, whatever characters (a newline, say) it is made of.
Glue(s) ==
    IF Len(s) <= 1 THEN s
    ELSE IF s[1] # Sep /\ s[2] # Sep THEN Glue(<<s[1] \o s[2]>> \o SubSeq(s, 3, Len(s)))
    ELSE <<s[1]>> \o Glue(Tail(s))

RECURSIVE JoinLines(_)
\* strings.Join(list, "\n")
JoinLines(list) ==
    IF Len(list) <= 1 THEN list ELSE <<Head(list), NL>> \o JoinLines(Tail(list))

RECURSIVE UpTo(_, _)
\* The tokens of s before the first token c.
UpTo(s, c) == IF s = <<>> \/ Head(s) = c THEN <<>> ELSE <<Head(s)>> \o UpTo(Tail(s), c)

\* The executables of the directories of PATH, by file name.
OnPath == {<<"sh">>, <<"peco">>}

\* exec.LookPath(file) for a name without separator: a file of that very
\* name in a directory of PATH.
LookPath(file) == IF file \in OnPath THEN "nil" ELSE "executable file not found in $PATH"

\* cmdExists(cmd)
cmdExists(cmd) == LookPath(cmd) = "nil"

\* No check: every path taken to exist.
fileExistsAny(f, filename) == TRUE

\* fileExists(filename): os.Stat succeeds
fileExists(f, filename) == Lstat(f, filename).err = "ok"

\* One record of calls: the call, its argument (the directory, the command
\* line, the source path), the subprocess's standard input, what came back
\* (the names, the standard output, the selected name) and the error.
Call(op, arg, stdin, out, e) == [op |-> op, arg |-> arg, stdin |-> stdin, out |-> out, err |-> e]

\* A root without entries taken for an empty list, with no error.
blplListAtEmptyOk(ratRoot, n) ==
    IF n.err # "ok" THEN [list |-> <<>>, err |-> n.err] ELSE [list |-> n.names, err |-> "nil"]

blplListAt(ratRoot, n) ==
    IF n.err # "ok" THEN [list |-> <<>>, err |-> n.err]
    ELSE IF Len(n.names) = 0 THEN [list |-> <<>>, err |-> "Not exists boilerplate directories"]
    ELSE [list |-> n.names, err |-> "nil"]

\* blplList(ratRoot): ioutil.ReadDir's entries by name, every entry's name taken
blplList(f, ratRoot) == blplListAt(ratRoot, readDirNames(f, ratRoot))

\* What the selector program may do with its input: print its first line
\* with a newline ("first"), without ("firstraw") or with two ("two"), print
\* nothing ("none"), a lone newline ("blank"), all of its input ("all") or a
\* name of its own ("other") or a path of its own ("up"), fail silently
\* ("fail") or after printing ("failout"); "nostart": the shell could not
\* be started.
Pickers ==
    {"first", "firstraw", "two", "none", "blank", "all", "other", "up", "fail", "failout",
     "nostart"}

\* The standard output of the selector program.
PickerOut(pk, stdin) ==
    IF pk \in {"first", "firstraw", "two", "failout"}
    THEN UpTo(stdin, NL) \o (IF pk = "firstraw" THEN <<>>
                             ELSE IF pk = "two" THEN <<NL, NL>> ELSE <<NL>>)
    ELSE IF pk = "blank" THEN <<NL>>
    ELSE IF pk = "all" THEN stdin
    ELSE IF pk = "other" THEN <<"zz", NL>>
    ELSE IF pk = "up" THEN <<DotDot, Sep, "w", Sep, "e", NL>>
    ELSE <<>>

\* runSelect(selectCmd, r, w): sh -c selectCmd with r as standard input and
\* w as standard output; cmd.Run()'s error.  The shell looks the first word
\* of the command line up on PATH and exits with 127 when it is not there.
runSelect(selectCmd, stdin, pk) ==
    IF pk = "nostart" THEN [err |-> "fork/exec /bin/sh: resource temporarily unavailable", out |-> <<>>]
    ELSE IF UpTo(selectCmd, Blank) \notin OnPath THEN [err |-> "exit status 127", out |-> <<>>]
    ELSE [err |-> IF pk \in {"fail", "failout"} THEN "exit status 1" ELSE "nil",
          out |-> PickerOut(pk, stdin)]

\* selectBlpl after runSelect: the buffer empty, or its text less one
\* trailing newline.
\* What selectBlpl returns, name and error, after the calls made; its
\* return is the last record.
Selected(cmd, name, e, made) ==
    [name |-> name, err |-> e, calls |-> Append(made, Call("selectBlpl", cmd, <<>>, name, e))]

\* runSelect's error looked at only when the selector printed nothing.
selectBlplOutLenient(cmd, r, made) ==
    IF Len(r.out) = 0 THEN Selected(cmd, <<>>, IF r.err # "nil" THEN r.err ELSE "No boilerplate selected", made)
    ELSE Selected(cmd, TrimSuffix(r.out, <<NL>>), "nil", made)

\* selectBlpl after runSelect: its error, the buffer empty, or the text of
\* the buffer less one trailing newline.
selectBlplOut(cmd, r, made) ==
    IF r.err # "nil" THEN Selected(cmd, <<>>, r.err, made)
    ELSE IF Len(r.out) = 0 THEN Selected(cmd, <<>>, "No boilerplate selected", made)
    ELSE Selected(cmd, TrimSuffix(r.out, <<NL>>), "nil", made)

selectBlplRun(cmd, stdin, r, listed) ==
    selectBlplOut(cmd, r, Append(listed, Call("sh", cmd, stdin, r.out, r.err)))

selectBlplAt(root, cmd, pk, l) ==
    IF l.err # "nil" THEN Selected(cmd, <<>>, l.err, <<Call("ReadDir", root, <<>>, l.list, l.err)>>)
    ELSE selectBlplRun(cmd, JoinLines(l.list), runSelect(cmd, JoinLines(l.list), pk),
                       <<Call("ReadDir", root, <<>>, l.list, l.err)>>)

\* The catalog listed first, the selector command looked at afterwards.
selectBlplListFirst(f, ratRoot, ratSelectCmd, pk) ==
    IF ratSelectCmd = <<>> /\ blplList(f, ratRoot).err = "nil"
    THEN Selected(ratSelectCmd, <<>>, "Please set 'RAT_SELECT_CMD' environment value",
                  <<Call("ReadDir", ratRoot, <<>>, blplList(f, ratRoot).list, "nil")>>)
    ELSE selectBlplAt(ratRoot, ratSelectCmd, pk, blplList(f, ratRoot))

\* selectBlpl(ratRoot, ratSelectCmd): the name, the error, the calls made
selectBlpl(f, ratRoot, ratSelectCmd, pk) ==
    IF ratSelectCmd = <<>>
    THEN Selected(ratSelectCmd, <<>>, "Please set 'RAT_SELECT_CMD' environment value", <<>>)
    ELSE selectBlplAt(ratRoot, ratSelectCmd, pk, blplList(f, ratRoot))

\* newEnv(ratRoot, ratSelectCmd): the message it dies with, or "nil".
\* (homedir.Expand and os.ExpandEnv leave a path without ~ and $ as it is.)
newEnvErr(f, ratRoot, ratSelectCmd) ==
    IF ratRoot = <<>> THEN "Please set 'RAT_ROOT' environment value"
    ELSE IF ~fileExists(f, TrimSuffix(ratRoot, <<Sep>>)) THEN "Not exists directory"
    ELSE IF ratSelectCmd = <<>> \/ ~cmdExists(ratSelectCmd) THEN "Not exists command"
    ELSE "nil"

\* main's switch on flag.NArg() and newArgs
newArgs(a) ==
    [boilerplateName |-> IF Len(a) = 2 THEN a[1] ELSE <<>>,
     projectPath |-> IF Len(a) = 2 THEN a[2] ELSE IF Len(a) = 1 THEN a[1] ELSE <<>>]

\* What main and run leave alone: the filesystem and the state of copyDir.
CopyIdle == UNCHANGED <<fs, fs0, umask, privileged, todo, err, log>>

\* The process ends with status code, having printed out and errs.
Exit(code, out, errs) ==
    /\ pc' = "exit"
    /\ exit' = code
    /\ outStream' = outStream \o out
    /\ errStream' = errStream \o errs

MainAt(e) ==
    IF e # "nil" THEN Exit(exitCodeError, <<>>, <<e>>) /\ UNCHANGED <<env, args>>
    ELSE IF Len(osArgs) = 0 /\ ~(option.showList \/ option.showVersion)
    THEN Exit(exitCodeError, <<"usage">>, <<>>) /\ UNCHANGED <<env, args>>
    ELSE IF Len(osArgs) > 2
    THEN Exit(exitCodeError, <<>>, <<"Too many arguments">>) /\ UNCHANGED <<env, args>>
    ELSE /\ pc' = "run"
         /\ env' = [env EXCEPT !.ratRoot = TrimSuffix(env.ratRoot, <<Sep>>)]
         /\ args' = newArgs(osArgs)
         /\ UNCHANGED <<exit, outStream, errStream>>

\* main up to the call of run: newEnv dies (exit status 1) on an empty or
\* missing root and on a selector command that is empty or not on PATH;
\* then the positional arguments become args.
Main ==
    /\ pc = "main"
    /\ MainAt(newEnvErr(fs, env.ratRoot, env.ratSelectCmd))
    /\ CopyIdle
    /\ UNCHANGED <<dst, src, osArgs, option, srcBoilerplatePath, calls>>

\* run with --version
RunVersion ==
    /\ pc = "run" /\ option.showVersion
    /\ Exit(exitCodeOK, <<"rat version 0.1.0">>, <<>>)
    /\ CopyIdle
    /\ UNCHANGED <<dst, src, osArgs, option, env, args, srcBoilerplatePath, calls>>

RunListAt(l) ==
    /\ calls' = Append(calls, Call("ReadDir", env.ratRoot, <<>>, l.list, l.err))
    /\ Exit(IF l.err # "nil" THEN exitCodeError ELSE exitCodeOK, l.list,
            IF l.err # "nil" THEN <<l.err>> ELSE <<>>)

\* run with --list: the names are printed one per line, or blplList's error
RunList ==
    /\ pc = "run" /\ ~option.showVersion /\ option.showList
    /\ RunListAt(blplList(fs, env.ratRoot))
    /\ CopyIdle
    /\ UNCHANGED <<dst, src, osArgs, option, env, args, srcBoilerplatePath>>

RunSelectAt(s) ==
    /\ calls' = calls \o s.calls
    /\ IF s.err # "nil"
       THEN Exit(exitCodeError, <<>>, <<s.err>>) /\ UNCHANGED srcBoilerplatePath
       ELSE /\ pc' = "check"
            /\ srcBoilerplatePath' = Join(env.ratRoot, Glue(s.name))
            /\ UNCHANGED <<exit, outStream, errStream>>

\* run, "select boilerplate": the name given on the command line, or
\* selectBlpl's, joined to the root.
RunSelect ==
    /\ pc = "run" /\ ~option.showVersion /\ ~option.showList
    /\ IF args.boilerplateName # <<>>
       THEN RunSelectAt([name |-> args.boilerplateName, err |-> "nil", calls |-> <<>>])
       ELSE \E pk \in Pickers : RunSelectAt(selectBlpl(fs, env.ratRoot, env.ratSelectCmd, pk))
    /\ CopyIdle
    /\ UNCHANGED <<dst, src, osArgs, option, env, args>>

\* run, the check of the source path and the call of copyDir
RunCheck ==
    /\ pc = "check"
    /\ IF ~fileExists(fs, srcBoilerplatePath)
       THEN /\ Exit(exitCodeError, <<>>, <<"Not exists directory">>)
            /\ UNCHANGED <<dst, src, calls>>
       ELSE /\ pc' = "copyDir"
            /\ dst' = args.projectPath
            /\ src' = srcBoilerplatePath
            /\ calls' = Append(calls, Call("copyDir", srcBoilerplatePath, <<>>, <<>>, "nil"))
            /\ UNCHANGED <<exit, outStream, errStream>>
    /\ CopyIdle
    /\ UNCHANGED <<osArgs, option, env, args, srcBoilerplatePath>>

\* ------------------------------------------------------------ inputs

\* A path string from its names: "/" before each.
RECURSIVE Abs(_)
Abs(names) == IF names = <<>> THEN <<>> ELSE <<Sep, Head(names)>> \o Abs(Tail(names))

\* The template root /r with the template t, the writable directory /w and
\* the read-only directory /ro.
BaseFs ==
    (<<>> :> Dir(Oct(7, 5, 5))) @@ (<<"r">> :> Dir(Oct(7, 5, 5)))
    @@ (<<"r", "t">> :> Dir(Oct(7, 5, 5))) @@ (<<"w">> :> Dir(Oct(7, 5, 5)))
    @@ (<<"ro">> :> Dir(Oct(5, 5, 5)))

SrcRoot == <<"r", "t">>

\* File contents, as bytes.
Data == {<<>>, <<1>>}

\* Modes of the template's files: plain, executable, unreadable.
FilePerms == {Oct(6, 4, 4), Oct(7, 5, 5), Oct(2, 0, 0)}

\* Modes of the template's subdirectory: plain, group-writable, read-only,
\* unlistable, unsearchable.
DirPerms == {Oct(7, 5, 5), Oct(7, 7, 5), Oct(5, 5, 5), Oct(3, 1, 1), Oct(6, 4, 4)}

\* The template's file a (or none), subdirectory sub (or none) and file sub/b.
SrcTrees ==
    {[a |-> a, sub |-> s, b |-> b] :
        a \in {NoInfo} \cup {File(p, d) : p \in FilePerms, d \in Data},
        s \in {NoInfo} \cup {Dir(p) : p \in DirPerms},
        b \in {NoInfo} \cup {File(Oct(6, 4, 4), d) : d \in Data}}

Put(f, p, e) == IF e = NoInfo THEN f ELSE (p :> e) @@ f

SrcFs(st) ==
    Put(Put(Put(BaseFs, SrcRoot \o <<"a">>, st.a), SrcRoot \o <<"sub">>, st.sub),
        SrcRoot \o <<"sub", "b">>, IF st.sub = NoInfo THEN NoInfo ELSE st.b)

Old == File(Oct(6, 4, 4), <<9>>)

\* Destinations, each with the entries that exist there beforehand: fresh
\* under a writable parent, under a missing parent, under a read-only
\* parent, an existing file, an existing directory (empty or not), the
\* source itself, and inside the source.
DstCases ==
    { [dst |-> <<"w", "p">>, pre |-> BaseFs],
      [dst |-> <<"nx", "p">>, pre |-> BaseFs],
      [dst |-> <<"ro", "p">>, pre |-> BaseFs],
      [dst |-> <<"w", "f">>, pre |-> (<<"w", "f">> :> Old)],
      [dst |-> <<"w", "e">>, pre |-> (<<"w", "e">> :> Dir(Oct(7, 5, 5)))],
      [dst |-> <<"w", "e">>, pre |-> (<<"w", "e">> :> Dir(Oct(7, 5, 5)))
                                       @@ (<<"w", "e", "keep">> :> Old)],
      [dst |-> <<"w", "e">>, pre |-> (<<"w", "e">> :> Dir(Oct(7, 5, 5)))
                                       @@ (<<"w", "e", "keep">> :> Old)
                                       @@ (<<"w", "e", "a">> :> Old)],
      [dst |-> <<"w", "e">>, pre |-> (<<"w", "e">> :> Dir(Oct(7, 5, 5)))
                                       @@ (<<"w", "e", "keep">> :> Dir(Oct(7, 5, 5)))
                                       @@ (<<"w", "e", "keep", "b">> :> Old)
                                       @@ (<<"w", "e", "sub">> :> Dir(Oct(7, 5, 5)))],
      [dst |-> SrcRoot, pre |-> BaseFs],
      [dst |-> SrcRoot \o <<"out">>, pre |-> BaseFs],
      [dst |-> SrcRoot \o <<"sub">>, pre |-> BaseFs] }

\* src as run passes it, and with a trailing separator.
SrcForms == {Abs(SrcRoot), Abs(SrcRoot) \o <<Sep>>}

Umasks == {0, Oct(0, 2, 2)}

\* copyDir is about to be called: a template, a destination, a form of src,
\* a umask and a kind of user.
InitWith(trees, cases) ==
    \E st \in trees, dc \in cases, s \in SrcForms, u \in Umasks, pr \in BOOLEAN :
        /\ fs = dc.pre @@ SrcFs(st)
        /\ fs0 = fs
        /\ umask = u
        /\ privileged = pr
        /\ dst = Abs(dc.dst)
        /\ src = s
        /\ pc = "copyDir"
        /\ todo = <<>>
        /\ err = "nil"
        /\ exit = -1
        /\ log = <<>>
        /\ osArgs = <<<<"t">>, Abs(dc.dst)>>
        /\ option = [showList |-> FALSE, showVersion |-> FALSE]
        /\ env = [ratRoot |-> Abs(Parent(SrcRoot)), ratSelectCmd |-> <<"peco">>]
        /\ args = [boilerplateName |-> <<"t">>, projectPath |-> Abs(dc.dst)]
        /\ srcBoilerplatePath = s
        /\ outStream = <<>>
        /\ errStream = <<>>
        /\ calls = <<[op |-> "copyDir", arg |-> s, stdin |-> <<>>, out |-> <<>>, err |-> "nil"]>>

Init == InitWith(SrcTrees, DstCases)

\* The plain use: a template whose directories the process can list, search
\* and write, copied to a new directory under a writable one.
PlainTrees == {st \in SrcTrees : st.sub = NoInfo \/ st.sub.perm \in {Oct(7, 5, 5), Oct(7, 7, 5)}}

PlainCases == {dc \in DstCases : dc.dst = <<"w", "p">>}

InitPlain == InitWith(PlainTrees, PlainCases)

\* The template copied onto itself.
SelfCases == {dc \in DstCases : dc.dst = SrcRoot}

InitSelf == InitWith(SrcTrees, SelfCases)

\* Templates and destinations for the question whether the walk ends: the
\* subdirectory plain or listable but not searchable, and the destination
\* outside the source, the source itself, directly inside it and two
\* levels inside it.
DeepTrees ==
    {st \in SrcTrees :
        /\ st.a \in {NoInfo, File(Oct(6, 4, 4), <<1>>)}
        /\ st.sub \in {NoInfo, Dir(Oct(7, 5, 5)), Dir(Oct(6, 4, 4))}
        /\ st.b \in {NoInfo, File(Oct(6, 4, 4), <<1>>)}}

DeepCases ==
    {dc \in DstCases : dc.dst \in {<<"w", "p">>, SrcRoot, SrcRoot \o <<"out">>}}
    \cup {[dst |-> SrcRoot \o <<"sub", "in">>, pre |-> BaseFs]}

InitDeep == InitWith(DeepTrees, DeepCases)

Next ==
    \/ CopyDirStart
    \/ Visit
    \/ WalkReturn
    \/ RunReturn

Spec == Init /\ [][Next]_vars

SpecPlain == InitPlain /\ [][Next]_vars

SpecSelf == InitSelf /\ [][Next]_vars

SpecDeep == InitDeep /\ [][Next]_vars

\* ------------------------------------------------ inputs of main and run

\* What there is besides the template root: the writable directory /w with
\* the file /w/f and the directory /w/e, which holds the file keep.
RunBase ==
    (<<>> :> Dir(Oct(7, 5, 5))) @@ (<<"w">> :> Dir(Oct(7, 5, 5))) @@ (<<"w", "f">> :> Old)
    @@ (<<"w", "e">> :> Dir(Oct(7, 5, 5))) @@ (<<"w", "e", "keep">> :> Old)

\* The template alpha: a file and a directory with a file.
Alpha ==
    (<<"r", "alpha">> :> Dir(Oct(7, 5, 5)))
    @@ (<<"r", "alpha", "a">> :> File(Oct(6, 4, 4), <<1>>))
    @@ (<<"r", "alpha", "sub">> :> Dir(Oct(7, 5, 5)))
    @@ (<<"r", "alpha", "sub", "b">> :> File(Oct(6, 4, 4), <<1>>))

\* Template roots /r: one template; three; two and a regular file, which
\* sorts first; none; one under a root that cannot be listed; and a
\* template that holds a directory inside a directory.
Catalogs ==
    { (<<"r">> :> Dir(Oct(7, 5, 5))) @@ Alpha,
      (<<"r">> :> Dir(Oct(7, 5, 5))) @@ Alpha @@ (<<"r", "beta">> :> Dir(Oct(7, 5, 5)))
          @@ (<<"r", "gamma">> :> Dir(Oct(7, 5, 5))),
      (<<"r">> :> Dir(Oct(7, 5, 5))) @@ Alpha @@ (<<"r", "a">> :> Old)
          @@ (<<"r", "t">> :> Dir(Oct(7, 5, 5))),
      (<<"r">> :> Dir(Oct(7, 5, 5))),
      (<<"r">> :> Dir(Oct(3, 1, 1))) @@ Alpha }

\* RAT_SELECT_CMD: unset, a command on PATH, that command with an argument,
\* a command that is not on PATH.
SelectCmds == {<<>>, <<"peco">>, <<"peco", Blank, "--select-1">>, <<"nope">>}

\* Template names given on the command line: a template, a regular file of
\* the root, no entry of the root; and names that are paths: a directory
\* inside a template, the root's parent, a directory beside the root.
GivenNames ==
    {<<"alpha">>, <<"a">>, <<"zz">>, <<"alpha", Sep, "sub">>, <<DotDot>>,
     <<DotDot, Sep, "w", Sep, "e">>}

\* Project paths: a new directory and an existing one.
ProjectPaths == {Abs(<<"w", "p">>), Abs(<<"w", "e">>)}

\* The positional arguments: none, the project, the template and the
\* project.
ArgLists ==
    {<<>>} \cup {<<p>> : p \in ProjectPaths}
    \cup {<<n, p>> : n \in GivenNames, p \in ProjectPaths}

Options == {[showList |-> l, showVersion |-> v] : l, v \in BOOLEAN}

\* The state before copyDir is called, whatever the entry point.
InitFront(cat, pr) ==
    /\ fs = cat @@ RunBase
    /\ fs0 = fs
    /\ umask = Oct(0, 2, 2)
    /\ privileged = pr
    /\ dst = <<>>
    /\ src = <<>>
    /\ todo = <<>>
    /\ err = "nil"
    /\ exit = -1
    /\ log = <<>>
    /\ srcBoilerplatePath = <<>>
    /\ outStream = <<>>
    /\ errStream = <<>>
    /\ calls = <<>>

\* run is called (as main calls it, or directly): a root with no trailing
\* separator (a directory, a regular file, missing), any selector command,
\* and args as main makes them.
InitRun ==
    \E cat \in Catalogs, pr \in BOOLEAN, o \in Options, c \in SelectCmds, a \in ArgLists,
       root \in {Abs(<<"r">>), Abs(<<"w", "f">>), Abs(<<"nx">>)} :
        /\ InitFront(cat, pr)
        /\ pc = "run"
        /\ osArgs = a
        /\ option = o
        /\ env = [ratRoot |-> root, ratSelectCmd |-> c]
        /\ args = newArgs(a)
        /\ (a = <<>> => (o.showList \/ o.showVersion))

\* The process starts: the environment's RAT_ROOT (unset, missing, given
\* with or without a trailing separator, a regular file) and
\* RAT_SELECT_CMD, the flags and the positional arguments.
InitMain ==
    \E cat \in Catalogs, pr \in BOOLEAN, o \in Options, c \in SelectCmds,
       a \in ArgLists \cup {<<<<"alpha">>, Abs(<<"w", "p">>), Abs(<<"w", "e">>)>>},
       root \in {<<>>, Abs(<<"r">>), Abs(<<"r">>) \o <<Sep>>, Abs(<<"nx">>), Abs(<<"w", "f">>)} :
        /\ InitFront(cat, pr)
        /\ pc = "main"
        /\ osArgs = a
        /\ option = o
        /\ env = [ratRoot |-> root, ratSelectCmd |-> c]
        /\ args = newArgs(<<>>)

\* run and what it calls.
NextRun ==
    \/ RunVersion
    \/ RunList
    \/ RunSelect
    \/ RunCheck
    \/ CopyDirStart
    \/ Visit
    \/ WalkReturn
    \/ RunReturn

\* The whole program.
NextMain ==
    \/ Main
    \/ NextRun

SpecRun == InitRun /\ [][NextRun]_vars

SpecMain == InitMain /\ [][NextMain]_vars

\* ------------------------------------------------------------ claims

SrcP == Resolve(src)

DstP == Resolve(dst)

\* The entries of f strictly below root.
Under(f, root) ==
    {p \in DOMAIN f : Len(p) > Len(root) /\ SubSeq(p, 1, Len(root)) = root}

\* p's path relative to root.
Rel(root, p) == SubSeq(p, Len(root) + 1, Len(p))

\* copyDir has returned nil.
Succeeded == pc \in {"returned", "exit"} /\ err = "nil"

\* copyDir has returned.
Returned == pc \in {"returned", "exit"}

\* dst did not exist when copyDir was called.
Fresh == DstP \notin DOMAIN fs0

\* The relative paths of the source tree's entries when copyDir was called.
SrcRels == {Rel(SrcP, p) : p \in Under(fs0, SrcP)}

Last(s) == s[Len(s)]

\* C1: after copyDir returned nil for a fresh dst, every regular file of the
\* source tree exists under dst at the same relative path, as a file with
\* the same bytes.
C1_FilesCopiedVerbatim ==
    (Succeeded /\ Fresh) =>
        \A p \in Under(fs0, SrcP) :
            fs0[p].kind = "file" =>
                /\ DstP \o Rel(SrcP, p) \in DOMAIN fs
                /\ fs[DstP \o Rel(SrcP, p)].kind = "file"
                /\ fs[DstP \o Rel(SrcP, p)].data = fs0[p].data

\* C2: after copyDir returned nil for a fresh dst, the entries under dst are
\* those of the source tree, at the same relative paths and of the same
\* kinds: none missing, none extra.
C2_SameEntries ==
    (Succeeded /\ Fresh) =>
        {<<Rel(DstP, q), fs[q].kind>> : q \in Under(fs, DstP)}
            = {<<Rel(SrcP, p), fs0[p].kind>> : p \in Under(fs0, SrcP)}

\* C3: copyDir never changes the source tree: at every moment the source
\* root and the entries below it are those there were when it was called,
\* each with its kind, mode and bytes.
C3_SourceUntouched ==
    /\ Under(fs, SrcP) = Under(fs0, SrcP)
    /\ \A p \in Under(fs0, SrcP) \cup {SrcP} : fs[p] = fs0[p]

\* The destination root cannot be created as a directory: os.Mkdir(dst)
\* fails and dst is no directory.
DstUncreatable ==
    /\ Mkdir(fs0, dst, RootMode).err # "ok"
    /\ ~(DstP \in DOMAIN fs0 /\ fs0[DstP].kind = "dir")

\* C4: when the destination root cannot be created as a directory, copyDir
\* returns an error and run returns a non-zero exit code.
C4_RootFailureReported ==
    (DstUncreatable /\ Returned) => (err # "nil" /\ (pc = "exit" => exit # exitCodeOK))

\* The process cannot open the source entry that log record e is about.
Unreadable(e) == e.kind = "file" /\ ~May(fs0, Resolve(e.path), 8)

\* C5: the callback's call for a source file that cannot be opened for
\* reading fails on opening it and is the last of the walk, copyDir returns
\* that error, and what earlier calls created under dst is still there.
C5_UnreadableFileAborts ==
    \A i \in 1..Len(log) :
        Unreadable(log[i]) =>
            /\ log[i].op = "open" /\ log[i].err # "nil"
            /\ i = Len(log)
            /\ Returned /\ err = log[i].err
            /\ \A j \in 1..(i - 1) : log[j].op \in {"mkdir", "copy"} => log[j].to \in DOMAIN fs

\* C6: a call of the callback whose byte copy failed is the last of the
\* walk, copyDir returns an error after it and run a non-zero exit code.
C6_CopyFailureReported ==
    \A i \in 1..Len(log) :
        log[i].cerr # "nil" =>
            /\ i = Len(log)
            /\ pc # "walk"
            /\ Returned => err # "nil"
            /\ pc = "exit" => exit # exitCodeOK

\* The last call of the callback was for a directory, and os.Mkdir failed.
LastFailedMkdir == log # <<>> /\ Last(log).op = "mkdir" /\ Last(log).sys # "nil"

\* C7: the step in which os.Mkdir fails for a source directory changes
\* nothing in the filesystem and makes copyDir return that error; from then
\* on no entry is visited and nothing is created or written: only run
\* returns.
C7_MkdirErrorEndsWalk ==
    [][ /\ (log' # log /\ Last(log').op = "mkdir" /\ Last(log').sys # "nil")
            => (pc' = "returned" /\ err' = Last(log').sys /\ fs' = fs)
        /\ LastFailedMkdir
            => (fs' = fs /\ log' = log /\ err' = err /\ todo' = todo /\ pc' = "exit") ]_vars

\* os.Mkdir failed for a source directory that holds an entry, run has
\* returned, and nothing was made for that entry under dst.
C7_Witness ==
    /\ pc = "exit" /\ exit = exitCodeError /\ LastFailedMkdir
    /\ \E p \in Under(fs0, Resolve(Last(log).path)) :
           Last(log).to \o Rel(Resolve(Last(log).path), p) \notin DOMAIN fs

\* C8 as stated: every directory copyDir made for a source directory has
\* that directory's permission bits.
C8_DirModeAsSource ==
    \A i \in 1..Len(log) :
        (log[i].op = "mkdir" /\ log[i].sys = "nil") => fs[log[i].to].perm = log[i].mode

\* C8 amended: every directory copyDir made for a source directory has that
\* directory's permission bits less the bits of the process's umask.
C8_DirModeLessUmask ==
    \A i \in 1..Len(log) :
        (log[i].op = "mkdir" /\ log[i].sys = "nil")
            => fs[log[i].to].perm = AndNot(log[i].mode, umask)

\* A group-writable source directory was copied under umask 022.
C8_Witness ==
    /\ pc = "exit" /\ umask = Oct(0, 2, 2)
    /\ \E i \in 1..Len(log) :
           /\ log[i].op = "mkdir" /\ log[i].sys = "nil" /\ log[i].mode = Oct(7, 7, 5)
           /\ fs[log[i].to].perm = Oct(7, 5, 5)

\* C9: every file copyDir created under dst has the mode of its source file.
C9_FileModeAsSource ==
    \A i \in 1..Len(log) :
        (log[i].op = "copy" /\ log[i].to \notin DOMAIN fs0) => fs[log[i].to].perm = log[i].mode

\* dst was a directory when copyDir was called.
DstWasDir == DstP \in DOMAIN fs0 /\ fs0[DstP].kind = "dir"

\* The entries there were under dst whose relative path is that of no
\* source entry.
Foreign == {p \in Under(fs0, DstP) : Rel(DstP, p) \notin SrcRels}

\* C10: when dst was a directory already, the walk takes place (the source
\* root is visited), and at every moment each entry there was under dst
\* whose relative path is that of no source entry is as it was: its kind,
\* mode and bytes, and for a directory its entries.
C10_ForeignEntriesKept ==
    DstWasDir =>
        /\ pc # "copyDir" =>
               \/ pc = "walk" /\ todo = <<src>> /\ log = <<>>
               \/ log # <<>> /\ log[1].path = src /\ log[1].kind = "dir"
        /\ \A p \in Foreign :
               /\ p \in DOMAIN fs /\ fs[p] = fs0[p]
               /\ ChildNames(fs, p) = ChildNames(fs0, p)

\* copyDir wrote a file into a directory that held an entry of its own, and
\* returned nil.
C10_Witness ==
    /\ pc = "exit" /\ err = "nil" /\ DstWasDir /\ Foreign # {}
    /\ \E i \in 1..Len(log) : log[i].op = "copy" /\ HasPrefix(log[i].to, DstP)

\* ------------------------------------------------- claims on main and run

\* The calls of kind op made so far.
Made(op) == {i \in 1..Len(calls) : calls[i].op = op}

\* A template name was given on the command line, with neither --list nor
\* --version, and the root names an entry that exists.
NameGiven ==
    /\ Len(osArgs) = 2 /\ ~option.showList /\ ~option.showVersion
    /\ Resolve(TrimSuffix(env.ratRoot, <<Sep>>)) \in DOMAIN fs0
    /\ env.ratRoot # <<>>

\* C11: when a template name is given, the catalog is never listed and the
\* selector never spawned, and once main and the selection step are over
\* the source path is the root joined with that very name: the invocation
\* did not end before, whatever the selector command and the catalog are.
C11_GivenNameIsUsed ==
    NameGiven =>
        /\ Made("ReadDir") = {} /\ Made("sh") = {}
        /\ pc \notin {"main", "run"} =>
               srcBoilerplatePath = Join(TrimSuffix(env.ratRoot, <<Sep>>), osArgs[1])

\* The record that follows record i of calls.
After(i) == calls[i + 1]

\* C12: after a selector that exited with status zero, selectBlpl fails with
\* "No boilerplate selected" when the captured output is empty, and else
\* returns the output less its last character when that is a newline, the
\* output as it is when not.
C12_OutputToName ==
    \A i \in Made("sh") :
        calls[i].err = "nil" =>
            /\ i < Len(calls) /\ After(i).op = "selectBlpl"
            /\ IF calls[i].out = <<>>
               THEN After(i).err = "No boilerplate selected" /\ After(i).out = <<>>
               ELSE /\ After(i).err = "nil"
                    /\ After(i).out =
                           IF calls[i].out[Len(calls[i].out)] = NL
                           THEN SubSeq(calls[i].out, 1, Len(calls[i].out) - 1)
                           ELSE calls[i].out

\* The selector was given alpha, beta and gamma, printed the first line, and
\* selectBlpl returned alpha.
C12_Witness ==
    \E i \in Made("sh") :
        /\ calls[i].stdin = <<"alpha", NL, "beta", NL, "gamma">>
        /\ calls[i].out = <<"alpha", NL>> /\ calls[i].err = "nil"
        /\ After(i).op = "selectBlpl" /\ After(i).out = <<"alpha">> /\ After(i).err = "nil"
        /\ srcBoilerplatePath = Abs(<<"r", "alpha">>)

\* C13: when the selector could not be started or exited with a status other
\* than zero, selectBlpl returns that error and no name, whatever the
\* selector printed, and run has returned exitCodeError with copyDir never
\* called and nothing written.
C13_SelectorFailureEndsRun ==
    \A i \in Made("sh") :
        calls[i].err # "nil" =>
            /\ i < Len(calls) /\ After(i).op = "selectBlpl"
            /\ After(i).err = calls[i].err /\ After(i).out = <<>>
            /\ pc = "exit" /\ exit = exitCodeError
            /\ Made("copyDir") = {} /\ fs = fs0 /\ log = <<>>

\* The selector printed a name and exited with status 1; run returned
\* exitCodeError.
C13_Witness ==
    /\ pc = "exit" /\ exit = exitCodeError
    /\ \E i \in Made("sh") :
           calls[i].err = "exit status 1" /\ calls[i].out = <<"alpha", NL>>

\* The root is a directory the process can list, with at least one entry.
RootListable ==
    /\ env.ratRoot # <<>>
    /\ Resolve(TrimSuffix(env.ratRoot, <<Sep>>)) \in DOMAIN fs0
    /\ fs0[Resolve(TrimSuffix(env.ratRoot, <<Sep>>))].kind = "dir"
    /\ (privileged \/ OwnerR(fs0[Resolve(TrimSuffix(env.ratRoot, <<Sep>>))].perm))
    /\ ChildNames(fs0, Resolve(TrimSuffix(env.ratRoot, <<Sep>>))) # {}

\* No template name was given, with neither --list nor --version, and the
\* first word of the selector command line is an executable on PATH.
SelectorNeeded ==
    /\ Len(osArgs) = 1 /\ ~option.showList /\ ~option.showVersion
    /\ env.ratSelectCmd # <<>> /\ UpTo(env.ratSelectCmd, Blank) \in OnPath

\* C14: a selector command line whose first word is an executable on PATH
\* is accepted, with or without arguments after it: once main and the
\* selection step are over, the shell was run with that command line.
C14_CommandLineAccepted ==
    (SelectorNeeded /\ RootListable /\ pc \notin {"main", "run"})
        => \E i \in Made("sh") : calls[i].arg = env.ratSelectCmd

\* The names of the directories that are entries of directory p.
ChildDirs(p) == {n \in ChildNames(fs0, p) : fs0[Append(p, n)].kind = "dir"}

\* The elements of a sequence.
Elems(s) == {s[i] : i \in 1..Len(s)}

\* C15: every listing of a root that succeeded returned the names of the
\* root's child directories, each once and nothing else.
C15_ListIsChildDirs ==
    \A i \in Made("ReadDir") :
        (calls[i].err = "nil" /\ ChildDirs(Resolve(calls[i].arg)) # {}) =>
            /\ Elems(calls[i].out) = ChildDirs(Resolve(calls[i].arg))
            /\ Len(calls[i].out) = Cardinality(ChildDirs(Resolve(calls[i].arg)))

\* Directory p has no entry, or the process cannot list p: p is missing, no
\* directory, or not readable.
Unlistable(p) ==
    \/ p \notin DOMAIN fs0
    \/ fs0[p].kind # "dir"
    \/ ~(privileged \/ OwnerR(fs0[p].perm))

\* C16: a listing of a root without entries, or of a root that cannot be
\* listed, fails and returns no name; run with --list then has returned
\* exitCodeError with nothing printed on the standard output; and as long as
\* copyDir is not called the filesystem is as it was.
C16_EmptyOrUnreadableRootFails ==
    /\ \A i \in Made("ReadDir") :
           (Unlistable(Resolve(calls[i].arg)) \/ ChildNames(fs0, Resolve(calls[i].arg)) = {}) =>
               /\ calls[i].err # "nil" /\ calls[i].out = <<>>
               /\ (option.showList /\ ~option.showVersion) =>
                      (pc = "exit" /\ exit = exitCodeError /\ outStream = <<>> /\ errStream # <<>>)
    /\ Made("copyDir") = {} => fs = fs0

\* run --list on a root without entries: nothing printed, exitCodeError.
C16_Witness ==
    /\ option.showList /\ ~option.showVersion /\ pc = "exit" /\ exit = exitCodeError
    /\ outStream = <<>>
    /\ \E i \in Made("ReadDir") :
           /\ calls[i].err = "Not exists boilerplate directories"
           /\ Resolve(calls[i].arg) \in DOMAIN fs0
           /\ ChildNames(fs0, Resolve(calls[i].arg)) = {}

\* The source path is set and names no entry.
SourceMissing ==
    srcBoilerplatePath # <<>> /\ Resolve(srcBoilerplatePath) \notin DOMAIN fs0

\* C17: when the source path names no entry, run past its check has
\* returned exitCodeError after the diagnostic "Not exists directory", with
\* copyDir never called and the filesystem as it was.
C17_MissingSourceEndsRun ==
    (SourceMissing /\ pc \notin {"run", "check"}) =>
        /\ pc = "exit" /\ exit = exitCodeError
        /\ errStream = <<"Not exists directory">>
        /\ Made("copyDir") = {} /\ log = <<>> /\ fs = fs0

\* The name zz, no entry of the root, was given for the new project /w/p:
\* run returned exitCodeError and /w/p does not exist.
C17_Witness ==
    /\ pc = "exit" /\ exit = exitCodeError /\ SourceMissing
    /\ args.boilerplateName = <<"zz">> /\ args.projectPath = Abs(<<"w", "p">>)
    /\ <<"w", "p">> \notin DOMAIN fs

\* The source path names a regular file.
SourceIsFile ==
    /\ srcBoilerplatePath # <<>> /\ Resolve(srcBoilerplatePath) \in DOMAIN fs0
    /\ fs0[Resolve(srcBoilerplatePath)].kind = "file"

\* C18: when the source path names a regular file, nothing is ever created
\* or changed, and run returns exitCodeError.
C18_FileAsSourceRefused ==
    SourceIsFile => (fs = fs0 /\ (pc = "exit" => exit = exitCodeError))

\* selectBlpl was called and returned an error.
SelectionFailed == \E i \in Made("selectBlpl") : calls[i].err # "nil"

\* C19: when selectBlpl fails, run has returned exitCodeError with copyDir
\* never called and the filesystem as it was; and a selectBlpl called with
\* no selector command has failed at once: its return is the only record,
\* no directory was listed and no subprocess started, which is what happens
\* whenever run has to select with no selector command.
C19_SelectionBeforeWrite ==
    /\ SelectionFailed =>
           /\ pc = "exit" /\ exit = exitCodeError /\ errStream # <<>>
           /\ Made("copyDir") = {} /\ log = <<>> /\ fs = fs0
    /\ \A i \in Made("selectBlpl") :
           calls[i].arg = <<>> =>
               /\ calls[i].err = "Please set 'RAT_SELECT_CMD' environment value"
               /\ Len(calls) = 1
    /\ (/\ args.boilerplateName = <<>> /\ env.ratSelectCmd = <<>>
        /\ ~option.showList /\ ~option.showVersion /\ pc \notin {"main", "run"})
           => (SelectionFailed /\ Made("ReadDir") = {} /\ Made("sh") = {})

\* No name given and no selector command set, for the existing directory
\* /w/e: run returned exitCodeError with nothing listed, nothing started and
\* /w/e as it was.
C19_Witness ==
    /\ pc = "exit" /\ exit = exitCodeError /\ SelectionFailed
    /\ env.ratSelectCmd = <<>> /\ args.projectPath = Abs(<<"w", "e">>)
    /\ calls = <<Call("selectBlpl", <<>>, <<>>, <<>>, "Please set 'RAT_SELECT_CMD' environment value")>>
    /\ fs = fs0

\* C20: copyDir returns, whatever the source tree and the destination are:
\* the process never ends inside the walk, in a state that is not run's
\* return and from which no step is possible.
C20_CopyDirReturns == pc # "panic"

\* C21: whenever run calls copyDir, the source path names an entry directly
\* inside the template root: not the root itself, nothing deeper, nothing
\* outside, whatever name was given and whatever the selector printed.
C21_SourceIsChildOfRoot ==
    \A i \in Made("copyDir") :
        /\ Resolve(calls[i].arg) # <<>>
        /\ Parent(Resolve(calls[i].arg)) = Resolve(env.ratRoot)

\* The destination is new and can be created: dst did not exist, and its
\* parent was a directory the process may write and search.
DstCreatable ==
    /\ Fresh
    /\ DstP # <<>>
    /\ Parent(DstP) \in DOMAIN fs0
    /\ fs0[Parent(DstP)].kind = "dir"
    /\ May(fs0, Parent(DstP), 7)
    /\ May(fs0, Parent(DstP), 6)

\* The process may read every entry of the source tree, and search every
\* directory of it.
SrcReadable ==
    \A p \in Under(fs0, SrcP) \cup {SrcP} :
        /\ p \in DOMAIN fs0
        /\ May(fs0, p, 8)
        /\ (fs0[p].kind = "dir" => May(fs0, p, 6))

\* C22: for a new destination under a writable parent and a source tree the
\* process can read, copyDir returns nil, whatever the modes of the source's
\* directories (a subdirectory without write permission that holds entries
\* included).
C22_SucceedsWhateverDirModes ==
    (DstCreatable /\ SrcReadable /\ pc \in {"returned", "exit", "panic"}) => Succeeded

====
